---- MODULE Spec2Model ----
\* A model of the bytecode_vm crate: the instruction codec (serialize /
\* deserialize), the loader of the runner binary, and the fetch-execute loop of
\* Machine::run with every instruction of Instruction::execute.
\*
\* Bytes are the integers 0..255; a stream (program file, input, output) is a
\* sequence of bytes.  Absolute stack indices are 0-based as in the source, so
\* the slot at absolute index i is stack[i + 1] here.
EXTENDS Integers, Sequences, FiniteSets, TLC

VARIABLES
  file,          \* the bytes the reader of deserialize_code has not consumed yet
  instructions,  \* deserialize_code: the Vec of instructions decoded so far
  load,          \* "none" | "encode" | "decode" | "ok" | "err": the loader
  code,          \* Machine.code
  stack,         \* Machine.stack
  pc,            \* Machine.pc
  input,         \* the bytes of the input stream not consumed yet
  output,        \* the bytes written to the output stream
  overflow_checks, \* the build's overflow-checks setting (on in debug builds)
  status,        \* "idle" | "running" | "ok" | "err" | "panic" | "load_err"
  errkind,       \* the io::ErrorKind returned by run / deserialize_code, or "none"
  prev,          \* history: the machine as it was before the last step of run
  init           \* history: what the run started from

vars == <<file, instructions, load, code, stack, pc, input, output,
          overflow_checks, status, errkind, prev, init>>

----------------------------------------------------------------------------
\* Bounds of the model.

\* The largest stack value.  It stands for u64::MAX: TLC's integers are 32 bits
\* wide, so the word is scaled down; all arithmetic wraps or traps at WordMax
\* exactly as u64 arithmetic does at 2^64 - 1.
WordMax == 256

\* Machine::run is followed while the stack holds at most MaxDepth values and
\* the output at most MaxOut bytes (a loop that grows neither revisits states).
MaxDepth == 6
MaxOut == 8

\* The longest program drawn from CoreInstrs.
MaxProg == 2

\* The longest initial stack of a one-instruction run.
MaxStack == 3

\* The largest stack offset an instruction of Instrs names.
MaxOff == 2

\* The longest program drawn from CodecCore.
MaxRecords == 2

----------------------------------------------------------------------------
\* Bytes and text.

NL == 10
CR == 13
PLUS == 43
MINUS == 45
ZERO == 48

RECURSIVE FormatU64(_)
\* Display for u64 ("{}"): the decimal digits, most significant first.
FormatU64(v) ==
  IF v < 10 THEN <<ZERO + v>>
  ELSE Append(FormatU64(v \div 10), ZERO + (v % 10))

RECURSIVE ParseDigits(_, _)
\* The digit loop of u64::from_str: -1 on a non-digit, -2 on overflow.
ParseDigits(digits, acc) ==
  IF digits = <<>> THEN acc
  ELSE LET d == Head(digits) - ZERO IN
       IF d < 0 \/ d > 9 THEN -1
       ELSE IF acc * 10 + d > WordMax THEN -2
       ELSE ParseDigits(Tail(digits), acc * 10 + d)

\* str::parse::<u64>: the value, or a negative number for a ParseIntError.
\* An empty string, a lone sign, a '-' and any non-digit are errors; one
\* leading '+' is accepted.
ParseU64(s) ==
  IF s = <<>> THEN -1
  ELSE IF Len(s) = 1 /\ s[1] \in {PLUS, MINUS} THEN -1
  ELSE IF s[1] = PLUS THEN ParseDigits(Tail(s), 0)
  ELSE ParseDigits(s, 0)

RECURSIVE ValidUtf8(_)
\* String::from_utf8 / the check of BufRead::read_line: well-formed UTF-8.
ValidUtf8(b) ==
  LET Cont(i) == i <= Len(b) /\ b[i] >= 128 /\ b[i] <= 191
      Rest(n) == ValidUtf8(SubSeq(b, n + 1, Len(b)))
  IN IF b = <<>> THEN TRUE
     ELSE IF b[1] < 128 THEN Rest(1)
     ELSE IF b[1] >= 194 /\ b[1] <= 223 THEN Cont(2) /\ Rest(2)
     ELSE IF b[1] >= 224 /\ b[1] <= 239
          THEN /\ Cont(2) /\ Cont(3)
               /\ (b[1] = 224 => b[2] >= 160)
               /\ (b[1] = 237 => b[2] <= 159)
               /\ Rest(3)
     ELSE IF b[1] >= 240 /\ b[1] <= 244
          THEN /\ Cont(2) /\ Cont(3) /\ Cont(4)
               /\ (b[1] = 240 => b[2] >= 144)
               /\ (b[1] = 244 => b[2] <= 143)
               /\ Rest(4)
     ELSE FALSE

----------------------------------------------------------------------------
\* The instruction set (enum Instruction).  Every instruction is a record of
\* the same shape; the operands an opcode does not have are 0 / <<>>.

Ins(op, a, b, c, s) == [op |-> op, a |-> a, b |-> b, c |-> c, s |-> s]

Push(v)      == Ins("Push", v, 0, 0, <<>>)
Out(p)       == Ins("Out", p, 0, 0, <<>>)
In           == Ins("In", 0, 0, 0, <<>>)
OutStr(s)    == Ins("OutStr", 0, 0, 0, s)
Copy(p)      == Ins("Copy", p, 0, 0, <<>>)
Add(l, r)    == Ins("Add", l, r, 0, <<>>)
Gt(l, r, t)  == Ins("Gt", l, r, t, <<>>)
Eq(l, r, t)  == Ins("Eq", l, r, t, <<>>)
Jmp(t)       == Ins("Jmp", t, 0, 0, <<>>)
Dec(p)       == Ins("Dec", p, 0, 0, <<>>)
Inc(p)       == Ins("Inc", p, 0, 0, <<>>)
InByte       == Ins("InByte", 0, 0, 0, <<>>)
OutByte(p)   == Ins("OutByte", p, 0, 0, <<>>)

\* No instruction: what a failed decode or a fetch past the program yields.
NoIns == Ins("None", 0, 0, 0, <<>>)

----------------------------------------------------------------------------
\* The binary codec.

RECURSIVE LeBytes(_, _)
\* The n low-order bytes of v, least significant first.
LeBytes(v, n) ==
  IF n = 0 THEN <<>> ELSE <<v % 256>> \o LeBytes(v \div 256, n - 1)

\* A faulty ToLe: the operand is written as a 32-bit integer.
ToLe32(v) == LeBytes(v, 4)

\* u64::to_le_bytes.
ToLe(v) == LeBytes(v, 8)

RECURSIVE FromLe(_)
\* u64::from_le_bytes.
FromLe(b) == IF b = <<>> THEN 0 ELSE Head(b) + 256 * FromLe(Tail(b))

\* The length as a u64, then the bytes of the string.
SerializeString(s) == ToLe(Len(s)) \o s

\* A faulty Tag: the tags of Dec and Inc are exchanged.
TagSwapped(op) ==
  CASE op = "Push" -> 0  [] op = "Out" -> 1   [] op = "In" -> 2
    [] op = "OutStr" -> 3 [] op = "Copy" -> 4  [] op = "Add" -> 5
    [] op = "Gt" -> 6    [] op = "Eq" -> 7    [] op = "Jmp" -> 8
    [] op = "Dec" -> 10  [] op = "Inc" -> 9   [] op = "InByte" -> 11
    [] op = "OutByte" -> 12

\* The tag byte Instruction::serialize writes for each variant.
Tag(op) ==
  CASE op = "Push" -> 0  [] op = "Out" -> 1   [] op = "In" -> 2
    [] op = "OutStr" -> 3 [] op = "Copy" -> 4  [] op = "Add" -> 5
    [] op = "Gt" -> 6    [] op = "Eq" -> 7    [] op = "Jmp" -> 8
    [] op = "Dec" -> 9   [] op = "Inc" -> 10  [] op = "InByte" -> 11
    [] op = "OutByte" -> 12

\* Instruction::serialize.  Each output.write is taken to accept its whole
\* buffer (at most a few bytes), as a Vec<u8> and a File do.
Serialize(ins) ==
  <<Tag(ins.op)>> \o
  CASE ins.op \in {"Push", "Out", "Copy", "Jmp", "Dec", "Inc", "OutByte"} ->
         ToLe(ins.a)
    [] ins.op \in {"In", "InByte"} -> <<>>
    [] ins.op = "OutStr" -> SerializeString(ins.s)
    [] ins.op = "Add" -> ToLe(ins.a) \o ToLe(ins.b)
    [] ins.op \in {"Gt", "Eq"} -> ToLe(ins.a) \o ToLe(ins.b) \o ToLe(ins.c)

RECURSIVE SerializeCode(_)
SerializeCode(p) ==
  IF p = <<>> THEN <<>> ELSE Serialize(Head(p)) \o SerializeCode(Tail(p))

\* The result of a read from the reader r: res is "Ok" or the io::ErrorKind,
\* ins the decoded value, rest what the reader still holds.
Got(res, ins, rest) == [res |-> res, ins |-> ins, rest |-> rest]

\* Read::read_exact of n bytes: too few bytes left is UnexpectedEof.
Short(r, n) == Len(r) < n

Drop(r, n) == SubSeq(r, n + 1, Len(r))

\* deserialize_variant!: one read_exact of 8 bytes per field.
DeserializeVariant(op, r, nf) ==
  IF Short(r, 8 * nf) THEN Got("UnexpectedEof", NoIns, <<>>)
  ELSE LET f(k) == IF k <= nf THEN FromLe(SubSeq(r, 8 * k - 7, 8 * k)) ELSE 0
       IN Got("Ok", Ins(op, f(1), f(2), f(3), <<>>), Drop(r, 8 * nf))

\* deserialize_string.  The lengths read here are small, so the allocation of
\* the buffer succeeds.
DeserializeString(r) ==
  IF Short(r, 8) THEN Got("UnexpectedEof", NoIns, <<>>)
  ELSE LET len  == FromLe(SubSeq(r, 1, 8))
           body == Drop(r, 8)
           buf  == SubSeq(body, 1, len)
       IN IF Short(body, len) THEN Got("UnexpectedEof", NoIns, <<>>)
          ELSE IF ~ValidUtf8(buf) THEN Got("InvalidData", NoIns, Drop(body, len))
          ELSE Got("Ok", OutStr(buf), Drop(body, len))

\* Instruction::deserialize: the tag byte, then the fields of its variant.
Deserialize(r) ==
  IF Short(r, 1) THEN Got("UnexpectedEof", NoIns, <<>>)
  ELSE LET tag == r[1]
           in  == Tail(r)
       IN CASE tag = 0  -> DeserializeVariant("Push", in, 1)
            [] tag = 1  -> DeserializeVariant("Out", in, 1)
            [] tag = 2  -> Got("Ok", In, in)
            [] tag = 3  -> DeserializeString(in)
            [] tag = 4  -> DeserializeVariant("Copy", in, 1)
            [] tag = 5  -> DeserializeVariant("Add", in, 2)
            [] tag = 6  -> DeserializeVariant("Gt", in, 3)
            [] tag = 7  -> DeserializeVariant("Eq", in, 3)
            [] tag = 8  -> DeserializeVariant("Jmp", in, 1)
            [] tag = 9  -> DeserializeVariant("Dec", in, 1)
            [] tag = 10 -> DeserializeVariant("Inc", in, 1)
            [] tag = 11 -> Got("Ok", InByte, in)
            [] tag = 12 -> DeserializeVariant("OutByte", in, 1)
            [] OTHER    -> Got("InvalidData", NoIns, in)

----------------------------------------------------------------------------
\* Instruction::execute.  The machine m is [stack, pc, input, output]; the
\* result adds res: "Ok", "Panic" (the thread panics: an unwrap, an index out of
\* bounds, an arithmetic overflow in a build with overflow checks), or the
\* io::ErrorKind of the Err that execute returns.

Ret(m, res) ==
  [stack |-> m.stack, pc |-> m.pc, input |-> m.input, output |-> m.output,
   res |-> res]

\* The common tail of execute: machine.pc += 1; Ok(0).
Advance(m) == Ret([m EXCEPT !.pc = m.pc + 1], "Ok")

\* A faulty JumpTo: the branch is taken and pc is incremented as well.
JumpToIncremented(m, t) == Ret([m EXCEPT !.pc = t + 1], "Ok")

\* A taken branch: machine.pc = target; return Ok(0).
JumpTo(m, t) == Ret([m EXCEPT !.pc = t], "Ok")

\* machine.stack.len() - 1 - p as usize, as a mathematical integer.  It is
\* negative exactly when the usize subtraction underflows: the build panics
\* there (overflow checks) or wraps to an index >= len, which the indexing
\* that follows rejects with a panic.
Slot(s, p) == Len(s) - 1 - p

InStack(s, p) == Slot(s, p) >= 0

\* machine.stack[i] for an absolute index i that is in range.
At(s, i) == s[i + 1]

\* Vec::remove(i) for an absolute index i that is in range.
RemoveAt(s, i) == SubSeq(s, 1, i) \o SubSeq(s, i + 2, Len(s))

\* A write to the output stream: all the bytes, or the stream's error.
WriteOut(m, bytes, sk) ==
  IF sk = "ok" THEN Advance([m EXCEPT !.output = @ \o bytes])
  ELSE Ret(m, sk)

ExecPush(m, v) == Advance([m EXCEPT !.stack = Append(@, v)])

\* The length of the first line of s, its newline included.
LineEnd(s) ==
  IF \E i \in 1..Len(s) : s[i] = NL
  THEN CHOOSE i \in 1..Len(s) : s[i] = NL /\ \A j \in 1..(i - 1) : s[j] # NL
  ELSE Len(s)

\* BufRead::lines: the line without its "\n" or "\r\n".
StripEol(raw) ==
  IF raw # <<>> /\ raw[Len(raw)] = NL
  THEN LET a == SubSeq(raw, 1, Len(raw) - 1) IN
       IF a # <<>> /\ a[Len(a)] = CR THEN SubSeq(a, 1, Len(a) - 1) ELSE a
  ELSE raw

\* A faulty ExecIn: the line reader keeps what it buffered past the line.
ExecInDrains(m) ==
  IF m.input = <<>> THEN Ret(m, "Panic")
  ELSE LET n    == LineEnd(m.input)
           raw  == SubSeq(m.input, 1, n)
           read == [m EXCEPT !.input = <<>>]
           v    == ParseU64(StripEol(raw))
       IN IF ~ValidUtf8(raw) THEN Ret(read, "InvalidData")
          ELSE IF v < 0 THEN Ret(read, "Panic")
          ELSE Advance([read EXCEPT !.stack = Append(@, v)])

ExecIn(m) ==
  IF m.input = <<>> THEN Ret(m, "Panic")
  ELSE LET n    == LineEnd(m.input)
           raw  == SubSeq(m.input, 1, n)
           rest == SubSeq(m.input, n + 1, Len(m.input))
           read == [m EXCEPT !.input = rest]
           v    == ParseU64(StripEol(raw))
       IN IF ~ValidUtf8(raw) THEN Ret(read, "InvalidData")
          ELSE IF v < 0 THEN Ret(read, "Panic")
          ELSE Advance([read EXCEPT !.stack = Append(@, v)])

\* A faulty ExecOut: the text is written without its newline.
ExecOutNoNewline(m, p, sk) ==
  IF ~InStack(m.stack, p) THEN Ret(m, "Panic")
  ELSE WriteOut(m, FormatU64(At(m.stack, Slot(m.stack, p))), sk)

ExecOut(m, p, sk) ==
  IF ~InStack(m.stack, p) THEN Ret(m, "Panic")
  ELSE WriteOut(m, Append(FormatU64(At(m.stack, Slot(m.stack, p))), NL), sk)

ExecOutStr(m, s, sk) == WriteOut(m, Append(s, NL), sk)

\* A faulty ExecAdd: the second index is not corrected for the first removal.
ExecAddUncorrected(m, lp, rp, oc) ==
  IF ~InStack(m.stack, lp) \/ ~InStack(m.stack, rp) THEN Ret(m, "Panic")
  ELSE LET l   == Slot(m.stack, lp)
           r   == Slot(m.stack, rp)
           s1  == RemoveAt(m.stack, l)
           s2  == RemoveAt(s1, r)
           sum == At(m.stack, l) + At(m.stack, r)
       IN IF r >= Len(s1) THEN Ret([m EXCEPT !.stack = s1], "Panic")
          ELSE IF sum > WordMax /\ oc THEN Ret([m EXCEPT !.stack = s2], "Panic")
          ELSE Advance([m EXCEPT !.stack = Append(s2, sum % (WordMax + 1))])

ExecAdd(m, lp, rp, oc) ==
  IF ~InStack(m.stack, lp) \/ ~InStack(m.stack, rp) THEN Ret(m, "Panic")
  ELSE LET l       == Slot(m.stack, lp)
           r       == Slot(m.stack, rp)
           l_value == At(m.stack, l)
           r_value == At(m.stack, r)
           correct == IF r > l THEN 1 ELSE 0
           s1      == RemoveAt(m.stack, l)
           s2      == RemoveAt(s1, r - correct)
           sum     == l_value + r_value
       IN IF r - correct >= Len(s1) THEN Ret([m EXCEPT !.stack = s1], "Panic")
          ELSE IF sum > WordMax /\ oc THEN Ret([m EXCEPT !.stack = s2], "Panic")
          ELSE Advance([m EXCEPT !.stack = Append(s2, sum % (WordMax + 1))])

\* A faulty ExecCopy: the offset is taken from the bottom of the stack.
ExecCopyFromBottom(m, p) ==
  IF ~InStack(m.stack, p) THEN Ret(m, "Panic")
  ELSE Advance([m EXCEPT !.stack = Append(@, At(m.stack, p))])

\* A faulty ExecCopy: the offset is ignored and the top is copied.
ExecCopyTop(m, p) ==
  IF ~InStack(m.stack, p) THEN Ret(m, "Panic")
  ELSE Advance([m EXCEPT !.stack = Append(m.stack, m.stack[Len(m.stack)])])

ExecCopy(m, p) ==
  IF ~InStack(m.stack, p) THEN Ret(m, "Panic")
  ELSE Advance([m EXCEPT !.stack = Append(@, At(m.stack, Slot(m.stack, p)))])

\* A faulty ExecGt: a taken branch pops the top of the stack.
ExecGtPopping(m, lp, rp, t) ==
  IF ~InStack(m.stack, lp) \/ ~InStack(m.stack, rp) THEN Ret(m, "Panic")
  ELSE IF At(m.stack, Slot(m.stack, lp)) > At(m.stack, Slot(m.stack, rp))
       THEN JumpTo([m EXCEPT !.stack = SubSeq(m.stack, 1, Len(m.stack) - 1)], t)
       ELSE Advance(m)

ExecGt(m, lp, rp, t) ==
  IF ~InStack(m.stack, lp) \/ ~InStack(m.stack, rp) THEN Ret(m, "Panic")
  ELSE IF At(m.stack, Slot(m.stack, lp)) > At(m.stack, Slot(m.stack, rp))
       THEN JumpTo(m, t)
       ELSE Advance(m)

ExecEq(m, lp, rp, t) ==
  IF ~InStack(m.stack, lp) \/ ~InStack(m.stack, rp) THEN Ret(m, "Panic")
  ELSE IF At(m.stack, Slot(m.stack, lp)) = At(m.stack, Slot(m.stack, rp))
       THEN JumpTo(m, t)
       ELSE Advance(m)

ExecJmp(m, t) == JumpTo(m, t)

\* A faulty ExecDec: the offset is ignored and the top is decremented.
ExecDecTop(m, p, oc) ==
  IF ~InStack(m.stack, p) THEN Ret(m, "Panic")
  ELSE LET index == Len(m.stack) - 1
           v     == At(m.stack, index)
       IN IF v = 0 /\ oc THEN Ret(m, "Panic")
          ELSE Advance([m EXCEPT !.stack[index + 1] =
                                   IF v = 0 THEN WordMax ELSE v - 1])

ExecDec(m, p, oc) ==
  IF ~InStack(m.stack, p) THEN Ret(m, "Panic")
  ELSE LET index == Slot(m.stack, p)
           v     == At(m.stack, index)
       IN IF v = 0 /\ oc THEN Ret(m, "Panic")
          ELSE Advance([m EXCEPT !.stack[index + 1] =
                                   IF v = 0 THEN WordMax ELSE v - 1])

ExecInc(m, p, oc) ==
  IF ~InStack(m.stack, p) THEN Ret(m, "Panic")
  ELSE LET index == Slot(m.stack, p)
           v     == At(m.stack, index)
       IN IF v = WordMax /\ oc THEN Ret(m, "Panic")
          ELSE Advance([m EXCEPT !.stack[index + 1] =
                                   IF v = WordMax THEN 0 ELSE v + 1])

\* A faulty ExecInByte: the end of the input is unwrapped, as in ExecIn.
ExecInByteUnwrap(m) ==
  IF m.input = <<>> THEN Ret(m, "Panic")
  ELSE Advance([m EXCEPT !.input = Tail(@), !.stack = Append(@, Head(m.input))])

ExecInByte(m) ==
  IF m.input = <<>> THEN Ret(m, "UnexpectedEof")
  ELSE Advance([m EXCEPT !.input = Tail(@), !.stack = Append(@, Head(m.input))])

\* A faulty ExecOutByte: only the low seven bits are written.
ExecOutByteAscii(m, p, sk) ==
  IF ~InStack(m.stack, p) THEN Ret(m, "Panic")
  ELSE LET v == At(m.stack, Slot(m.stack, p)) IN
       IF v > 255 THEN Ret(m, "Panic")
       ELSE WriteOut(m, <<v % 128>>, sk)

ExecOutByte(m, p, sk) ==
  IF ~InStack(m.stack, p) THEN Ret(m, "Panic")
  ELSE LET v == At(m.stack, Slot(m.stack, p)) IN
       IF v > 255 THEN Ret(m, "Panic")
       ELSE WriteOut(m, <<v>>, sk)

Execute(ins, m, sk, oc) ==
  CASE ins.op = "Push"    -> ExecPush(m, ins.a)
    [] ins.op = "In"      -> ExecIn(m)
    [] ins.op = "Out"     -> ExecOut(m, ins.a, sk)
    [] ins.op = "OutStr"  -> ExecOutStr(m, ins.s, sk)
    [] ins.op = "Add"     -> ExecAdd(m, ins.a, ins.b, oc)
    [] ins.op = "Copy"    -> ExecCopy(m, ins.a)
    [] ins.op = "Gt"      -> ExecGt(m, ins.a, ins.b, ins.c)
    [] ins.op = "Eq"      -> ExecEq(m, ins.a, ins.b, ins.c)
    [] ins.op = "Jmp"     -> ExecJmp(m, ins.a)
    [] ins.op = "Dec"     -> ExecDec(m, ins.a, oc)
    [] ins.op = "Inc"     -> ExecInc(m, ins.a, oc)
    [] ins.op = "InByte"  -> ExecInByte(m)
    [] ins.op = "OutByte" -> ExecOutByte(m, ins.a, sk)

----------------------------------------------------------------------------
\* Machine::run: one iteration of its loop per step.

NoPrev ==
  [ins |-> NoIns, pc |-> 0, stack |-> <<>>, input |-> <<>>, output |-> <<>>,
   res |-> "Start"]

\* What run does with the value execute returned: Ok continues the loop,
\* UnexpectedEof breaks out of it (run then returns Ok), any other error is
\* returned; a panic unwinds through run.
\* A faulty RunResult: the end of the input is returned as an error.
RunResultStrict(res) ==
  CASE res = "Ok"    -> "running"
    [] res = "Panic" -> "panic"
    [] OTHER         -> "err"

RunResult(res) ==
  CASE res = "Ok"            -> "running"
    [] res = "UnexpectedEof" -> "ok"
    [] res = "Panic"         -> "panic"
    [] OTHER                 -> "err"

\* The error kinds a failing write to the output stream may carry.
WriteErrors == {"BrokenPipe", "UnexpectedEof"}

\* Some(instruction): execute it.  wr is what the output stream answers to a
\* write, should the instruction write.
Step ==
  /\ status = "running"
  /\ pc < Len(code)
  /\ Len(stack) <= MaxDepth
  /\ Len(output) <= MaxOut
  /\ \E wr \in {"ok"} \cup WriteErrors :
       LET ins == code[pc + 1]
           m   == [stack |-> stack, pc |-> pc, input |-> input, output |-> output]
           r   == Execute(ins, m, wr, overflow_checks)
       IN /\ stack' = r.stack
          /\ pc' = r.pc
          /\ input' = r.input
          /\ output' = r.output
          /\ status' = RunResult(r.res)
          /\ errkind' = IF RunResult(r.res) = "err" THEN r.res ELSE "none"
          /\ prev' = [ins |-> ins, pc |-> pc, stack |-> stack, input |-> input,
                      output |-> output, res |-> r.res]
  /\ UNCHANGED <<file, instructions, load, code, overflow_checks, init>>

\* A faulty Halt: a fetch past the program is reported as an error.
HaltAsError ==
  /\ status = "running"
  /\ pc >= Len(code)
  /\ status' = "err"
  /\ errkind' = "InvalidData"
  /\ prev' = [ins |-> NoIns, pc |-> pc, stack |-> stack, input |-> input,
              output |-> output, res |-> "None"]
  /\ UNCHANGED <<file, instructions, load, code, stack, pc, input, output,
                 overflow_checks, init>>

\* None: break; run returns Ok(0).
Halt ==
  /\ status = "running"
  /\ pc >= Len(code)
  /\ status' = "ok"
  /\ prev' = [ins |-> NoIns, pc |-> pc, stack |-> stack, input |-> input,
              output |-> output, res |-> "None"]
  /\ UNCHANGED <<file, instructions, load, code, stack, pc, input, output,
                 overflow_checks, errkind, init>>

----------------------------------------------------------------------------
\* The codec's entry points and the runner (src/bin/main.rs).

\* serialize_code: the program written out, then opened for reading.
Encode ==
  /\ load = "encode"
  /\ file' = SerializeCode(init.prog)
  /\ load' = "decode"
  /\ UNCHANGED <<instructions, code, stack, pc, input, output, overflow_checks,
                 status, errkind, prev, init>>

\* A faulty LoadResult: every error ends the loop like the end of the stream.
LoadResultLenient(res) == IF res = "Ok" THEN "decode" ELSE "ok"

\* What deserialize_code does with the value deserialize returned:
\* UnexpectedEof breaks out of the loop (Ok(instructions) is returned), any
\* other error is returned.
LoadResult(res) ==
  CASE res = "Ok"            -> "decode"
    [] res = "UnexpectedEof" -> "ok"
    [] OTHER                 -> "err"

\* deserialize_code: one iteration of its loop.
DecodeStep ==
  /\ load = "decode"
  /\ LET r == Deserialize(file) IN
       /\ file' = r.rest
       /\ instructions' =
            IF r.res = "Ok" THEN Append(instructions, r.ins) ELSE instructions
       /\ load' = LoadResult(r.res)
       /\ errkind' = IF LoadResult(r.res) = "err" THEN r.res ELSE "none"
  /\ UNCHANGED <<code, stack, pc, input, output, overflow_checks, status, prev,
                 init>>

\* main: the decoded program becomes the code of a fresh Machine, which runs.
Boot ==
  /\ load = "ok"
  /\ status = "idle"
  /\ code' = instructions
  /\ stack' = <<>>
  /\ pc' = 0
  /\ status' = "running"
  /\ UNCHANGED <<file, instructions, load, input, output, overflow_checks,
                 errkind, prev, init>>

\* main: deserialize_code(&mut file)? returns the error; no Machine is built.
LoadFail ==
  /\ load = "err"
  /\ status = "idle"
  /\ status' = "load_err"
  /\ UNCHANGED <<file, instructions, load, code, stack, pc, input, output,
                 overflow_checks, errkind, prev, init>>

----------------------------------------------------------------------------
\* The machines and inputs the runs start from.

Line(n) == Append(FormatU64(n), NL)

Values == {0, 1, 255, WordMax}

Offsets == 0..MaxOff

\* Branch targets: the instruction itself, the next one, one past any program.
Targets == {0, 1, 5}

Strings == {<<>>, <<65>>}

Instrs ==
  {Push(v) : v \in {1, WordMax}} \cup {In, InByte}
    \cup {OutStr(s) : s \in Strings}
    \cup {Out(p) : p \in Offsets} \cup {Copy(p) : p \in Offsets}
    \cup {Dec(p) : p \in Offsets} \cup {Inc(p) : p \in Offsets}
    \cup {OutByte(p) : p \in Offsets}
    \cup {Add(l, r) : l \in Offsets, r \in Offsets}
    \cup {Gt(l, r, t) : l \in Offsets, r \in Offsets, t \in Targets}
    \cup {Eq(l, r, t) : l \in Offsets, r \in Offsets, t \in Targets}
    \cup {Jmp(t) : t \in Targets}

CoreInstrs ==
  {Push(1), Push(WordMax), In, InByte, Out(0), OutStr(<<65>>), OutByte(0),
   Copy(0), Add(0, 1), Add(1, 1), Gt(0, 1, 0), Eq(0, 1, 5), Jmp(0), Jmp(5),
   Dec(0), Inc(0)}

SeqsUpTo(S, n) == UNION {[1..k -> S] : k \in 0..n}

Stacks == SeqsUpTo(Values, MaxStack)

Programs == SeqsUpTo(CoreInstrs, MaxProg)

\* src/main.rs: the program its main runs.
SumProgram ==
  <<Push(0), In, Push(0), Push(1), Eq(2, 3, 9), Copy(0), Add(1, 2), Dec(2),
    Jmp(4), Out(0)>>

\* src/bin/serialize_program.rs: the program its main writes.
EchoProgram == <<InByte, OutByte(0), Jmp(0)>>

AddProgram == <<Push(5), Push(3), Add(1, 0), Out(0)>>

PassProgram == <<InByte, OutByte(0)>>

\* The same offset used at two stack lengths.
CopyProgram == <<Push(1), Push(2), Copy(1), Copy(1), Out(1)>>

Examples == {SumProgram, EchoProgram, AddProgram, PassProgram, CopyProgram}

UnitInputs == {<<>>, Line(5), <<255>>}

Inputs ==
  {<<>>, Line(5), Line(0), <<55>>, <<120, NL>>, <<255>>, <<PLUS, 49, NL>>,
   <<NL>>, <<49, CR, NL>>, Line(WordMax + 1), <<51, NL, 65>>, <<65, 52, NL>>}

\* Every value of a byte, for the one-byte inputs of PassProgram.
AllBytes == 0..255

\* A Machine literal with pc 0, as the tests, src/main.rs and the runner build.
InitMachine(c, s, i) ==
  /\ file = <<>>
  /\ instructions = <<>>
  /\ load = "none"
  /\ code = c
  /\ stack = s
  /\ pc = 0
  /\ input = i
  /\ output = <<>>
  /\ status = "running"
  /\ errkind = "none"
  /\ prev = NoPrev
  /\ init = [kind |-> "machine", prog |-> c, cut |-> 0, bad |-> <<>>,
             stack |-> s, input |-> i]

Init ==
  /\ overflow_checks \in BOOLEAN
  /\ \/ \E ins \in Instrs, s \in Stacks, i \in UnitInputs :
          InitMachine(<<ins>>, s, i)
     \/ \E c \in Programs \cup Examples, i \in Inputs : InitMachine(c, <<>>, i)
     \/ \E b \in AllBytes : InitMachine(PassProgram, <<>>, <<b>>)

Next == Step \/ Halt

Spec == Init /\ [][Next]_vars

----------------------------------------------------------------------------
\* The program files the codec is given.

\* "A" followed by U+00E9 (two bytes in UTF-8).
Accented == <<65, 195, 169>>

CodecCore ==
  {Push(WordMax), In, OutStr(<<>>), OutStr(Accented), Add(1, 2), Gt(0, 1, 5),
   Jmp(0), InByte}

CodecPrograms == SeqsUpTo(CodecCore, MaxRecords)

\* Bytes that are no tag, and an OutStr record whose body is not UTF-8.
BadTags == {<<13>>, <<255>>}

BadRecords == BadTags \cup {<<3>> \o ToLe(1) \o <<255>>}

CodecInputs == {<<>>, Line(5)}

\* The runner before it has read the program file f.
InitLoader(k, p, f, cut, bad, i, ld) ==
  /\ file = f
  /\ instructions = <<>>
  /\ load = ld
  /\ code = <<>>
  /\ stack = <<>>
  /\ pc = 0
  /\ input = i
  /\ output = <<>>
  /\ status = "idle"
  /\ errkind = "none"
  /\ prev = NoPrev
  /\ init = [kind |-> k, prog |-> p, cut |-> cut, bad |-> bad,
             stack |-> <<>>, input |-> i]

InitCodec ==
  /\ overflow_checks \in BOOLEAN
  /\ \E i \in CodecInputs :
       \* a program that is encoded and then decoded
       \/ \E p \in {<<ins>> : ins \in Instrs} \cup CodecPrograms \cup Examples :
            InitLoader("roundtrip", p, <<>>, 0, <<>>, i, "encode")
       \* a file that holds the first cut bytes of an encoded program
       \/ \E p \in CodecPrograms :
            \E cut \in 0..Len(SerializeCode(p)) :
              InitLoader("truncated", p, SubSeq(SerializeCode(p), 1, cut), cut,
                         <<>>, i, "decode")
       \* a file with a bad record between two encoded programs
       \/ \E p \in SeqsUpTo(CodecCore, 1), q \in SeqsUpTo(CodecCore, 1),
             bad \in BadRecords :
            InitLoader("damaged", p, SerializeCode(p) \o bad \o SerializeCode(q),
                       0, bad, i, "decode")

NextCodec == Encode \/ DecodeStep \/ Boot \/ LoadFail \/ Step \/ Halt

SpecCodec == InitCodec /\ [][NextCodec]_vars

----------------------------------------------------------------------------
\* Properties.  prev is the machine before the last step of run and the
\* instruction that step executed; stack, pc, input, output are the machine
\* after it.

\* The value an offset from the top names in the stack s.
Top(s, p) == s[Len(s) - p]

\* The last step executed an instruction.
Executed == prev.ins.op # "None"

\* The last step was a write that the output stream refused.
WriteFailed ==
  prev.ins.op \in {"Out", "OutStr", "OutByte"} /\ prev.res \in WriteErrors

RECURSIVE KeepFrom(_, _, _)
\* The elements of s at the positions i.. that are not in P, in order.
KeepFrom(s, P, i) ==
  IF i > Len(s) THEN <<>>
  ELSE (IF i \in P THEN <<>> ELSE <<s[i]>>) \o KeepFrom(s, P, i + 1)

\* C1: a step that executes an instruction without failing leaves pc at the
\* target t when the instruction is Jmp(t), or Gt(a, b, t) with
\* stack[a] > stack[b], or Eq(a, b, t) with stack[a] = stack[b]; after every
\* other instruction, and after a branch that is not taken, pc is the old
\* pc + 1.  A taken branch gets no extra increment.
C1_BranchPc ==
  (Executed /\ prev.res = "Ok") =>
    LET i == prev.ins
        s == prev.stack
        taken ==
          \/ i.op = "Jmp"
          \/ i.op = "Gt" /\ Top(s, i.a) > Top(s, i.b)
          \/ i.op = "Eq" /\ Top(s, i.a) = Top(s, i.b)
        target == IF i.op = "Jmp" THEN i.a ELSE i.c
    IN pc = IF taken THEN target ELSE prev.pc + 1

\* A Gt that is taken to a target other than the next instruction.
C1_Witness ==
  /\ prev.ins.op = "Gt" /\ prev.res = "Ok"
  /\ Top(prev.stack, prev.ins.a) > Top(prev.stack, prev.ins.b)
  /\ pc = prev.ins.c /\ pc # prev.pc + 1

\* The case of C2: Add(a, b) with two distinct offsets inside the stack.
AddDistinct ==
  /\ prev.ins.op = "Add"
  /\ prev.ins.a # prev.ins.b
  /\ prev.ins.a < Len(prev.stack)
  /\ prev.ins.b < Len(prev.stack)

\* The stack before the Add without the two slots its offsets name.
AddRest ==
  KeepFrom(prev.stack,
           {Len(prev.stack) - prev.ins.a, Len(prev.stack) - prev.ins.b}, 1)

AddSum == Top(prev.stack, prev.ins.a) + Top(prev.stack, prev.ins.b)

\* C2 as stated: Add(a, b) with distinct valid offsets always yields the
\* stack without the two slots, in order, with their sum on top (one shorter).
C2_AsStated ==
  AddDistinct =>
    /\ prev.res = "Ok"
    /\ stack = Append(AddRest, AddSum)
    /\ Len(stack) = Len(prev.stack) - 1

\* C2, amended: Add(a, b) with distinct valid offsets yields the stack without
\* the two slots, in order, with their sum on top (one shorter) when the sum
\* fits the word; when it does not, a build with overflow checks panics and a
\* build without pushes the sum reduced modulo the word size.
C2_AddRemovesTwo ==
  AddDistinct =>
    IF AddSum <= WordMax
    THEN /\ prev.res = "Ok"
         /\ stack = Append(AddRest, AddSum)
         /\ Len(stack) = Len(prev.stack) - 1
    ELSE IF overflow_checks THEN status = "panic"
    ELSE /\ prev.res = "Ok"
         /\ stack = Append(AddRest, AddSum - (WordMax + 1))
         /\ Len(stack) = Len(prev.stack) - 1

\* An Add of the top and the bottom of a three-element stack.
C2_Witness ==
  /\ prev.ins = Add(2, 0)
  /\ prev.stack = <<1, 0, 255>>
  /\ prev.res = "Ok"
  /\ stack = <<0, 256>>

\* The offsets an instruction resolves against the stack.
OffsetsOf(i) ==
  CASE i.op \in {"Out", "Copy", "Dec", "Inc", "OutByte"} -> {i.a}
    [] i.op \in {"Add", "Gt", "Eq"} -> {i.a, i.b}
    [] OTHER -> {}

\* C3: an instruction with an offset >= the stack length makes run return an
\* error value; the run does not end by a panic.
C3_BoundsError ==
  (Executed /\ \E p \in OffsetsOf(prev.ins) : p >= Len(prev.stack)) =>
    (status = "err" /\ stack = prev.stack)

\* C4: when a fetch finds pc >= the program length, however pc got there, run
\* returns success at once: the step that follows changes nothing but the
\* status, and no step follows a halt.  An empty program halts at its first
\* fetch with no output.
C4_HaltsPastEnd ==
  /\ []((status = "running" /\ pc >= Len(code)) => ENABLED Halt)
  /\ [][(status = "running" /\ pc >= Len(code)) =>
          (status' = "ok" /\ UNCHANGED <<code, stack, pc, input, output>>)]_vars
  /\ [][status # "ok"]_vars

\* A halt after a branch past the end of a program that wrote output.
C4_Witness ==
  /\ status = "ok" /\ prev.res = "None"
  /\ Len(code) = 2 /\ pc = 5
  /\ output = <<65, NL>>

\* C5: In on an exhausted input ends the run as a normal halt: run returns
\* success and nothing is pushed.
C5_InEof ==
  (prev.ins.op = "In" /\ prev.input = <<>>) =>
    (status = "ok" /\ stack = prev.stack)

\* C6: InByte on an exhausted input ends the run as a normal halt: run
\* returns success, nothing is pushed, and the output written so far is kept.
C6_InByteEof ==
  (prev.ins.op = "InByte" /\ prev.input = <<>>) =>
    /\ status = "ok"
    /\ errkind = "none"
    /\ stack = prev.stack
    /\ output = prev.output

\* InByte at the end of the input after some output was written.
C6_Witness ==
  /\ prev.ins.op = "InByte" /\ prev.input = <<>>
  /\ status = "ok"
  /\ output # <<>>

\* The lengths at which an encoded program ends a record.
Boundaries(p) == {Len(SerializeCode(SubSeq(p, 1, k))) : k \in 0..Len(p)}

\* C7: deserialize_code returns success only for a stream that ends at a
\* record boundary; a stream cut inside a record is rejected.
C7_TruncatedRejected ==
  (init.kind = "truncated" /\ load = "ok") => init.cut \in Boundaries(init.prog)

\* C8: a record that starts with a tag outside 0..12 makes deserialize_code
\* return an error and no program; the runner builds no machine and executes
\* no instruction.
C8_BadTagRejected ==
  (init.kind = "damaged" /\ init.bad \in BadTags) =>
    /\ load \in {"decode", "err"}
    /\ load = "err" => errkind = "InvalidData"
    /\ status \in {"idle", "load_err"}
    /\ code = <<>> /\ prev = NoPrev /\ output = <<>>

\* The runner gave up on a file whose second record has a bad tag.
C8_Witness ==
  /\ init.kind = "damaged" /\ init.bad \in BadTags
  /\ status = "load_err"
  /\ Len(instructions) = 1

\* C9: decoding the encoding of a program yields the program: every record
\* decodes to the instruction it encodes, in order, and the decoder stops
\* with exactly the program.
C9_RoundTrip ==
  init.kind = "roundtrip" =>
    /\ load # "err"
    /\ load \in {"decode", "ok"} =>
         /\ Len(instructions) <= Len(init.prog)
         /\ instructions = SubSeq(init.prog, 1, Len(instructions))
    /\ load = "ok" => instructions = init.prog

\* A two-instruction program with a non-ASCII OutStr came back whole.
C9_Witness ==
  /\ init.kind = "roundtrip" /\ load = "ok"
  /\ Len(instructions) = 2
  /\ instructions[1] = OutStr(Accented)
  /\ instructions = init.prog

\* A run of the program of src/main.rs on the input "5\n" that is over, with
\* an output stream that accepted what was written.
SumRunOver ==
  /\ code = SumProgram /\ init.stack = <<>> /\ init.input = Line(5)
  /\ status # "running"
  /\ ~WriteFailed

\* C10 as stated: the program of src/main.rs on "5\n" writes "15\n" and halts
\* cleanly.
C10_AsStated == SumRunOver => (status = "ok" /\ output = <<49, 53, NL>>)

\* C10, amended: the program of src/main.rs on "5\n" writes "8\n" (the
\* Fibonacci number the loop reaches after five rounds) and halts cleanly.
C10_SumProgram ==
  SumRunOver => (status = "ok" /\ prev.res = "None" /\ output = <<56, NL>>)

C10_Witness ==
  /\ SumRunOver /\ status = "ok" /\ pc = 10
  /\ output = <<56, NL>>

\* A run of [Push(5), Push(3), Add(1, 0), Out(0)] from the empty stack on
\* an empty input that is over, with an output stream that accepted what was
\* written.
AddRunOver ==
  /\ code = AddProgram /\ init.stack = <<>> /\ init.input = <<>>
  /\ status # "running"
  /\ ~WriteFailed

\* C11: [Push(5), Push(3), Add(1, 0), Out(0)] from an empty stack with empty
\* input writes exactly "8\n" and halts cleanly with pc = 4.
C11_AddProgram ==
  AddRunOver =>
    (status = "ok" /\ prev.res = "None" /\ pc = 4 /\ output = <<56, NL>>)

C11_Witness ==
  /\ AddRunOver /\ status = "ok" /\ pc = 4
  /\ stack = <<8>> /\ output = <<56, NL>>

\* A run of [InByte, OutByte(0)] from the empty stack on a one-byte input
\* that is over, with an output stream that accepted what was written.
PassRunOver ==
  /\ code = PassProgram /\ init.stack = <<>> /\ Len(init.input) = 1
  /\ status # "running"
  /\ ~WriteFailed

\* C12: for every byte b, [InByte, OutByte(0)] on the one-byte input b writes
\* exactly the byte b and halts cleanly.
C12_BytePassthrough ==
  PassRunOver =>
    (status = "ok" /\ prev.res = "None" /\ pc = 2 /\ output = init.input)

\* The byte 200 (above the ASCII range) has passed through.
C12_Witness ==
  /\ PassRunOver /\ status = "ok"
  /\ init.input = <<200>> /\ output = <<200>>

\* s ends with t.
IsSuffix(t, s) ==
  /\ Len(t) <= Len(s)
  /\ t = SubSeq(s, Len(s) - Len(t) + 1, Len(s))

\* The bytes the last step took from the input.
Consumed == SubSeq(prev.input, 1, Len(prev.input) - Len(input))

\* C13: over a run that mixes In and InByte, every input byte is consumed by
\* exactly one read, in stream order: what is left is always a suffix of the
\* input; an In takes the bytes up to and including the next newline (all of
\* them when there is none), an InByte takes exactly the next byte and pushes
\* it, and no other instruction takes any.
C13_InputOrder ==
  /\ IsSuffix(input, init.input)
  /\ Executed =>
       /\ IsSuffix(input, prev.input)
       /\ prev.ins.op = "In" /\ prev.input # <<>> =>
            /\ Consumed # <<>>
            /\ \A k \in 1..(Len(Consumed) - 1) : Consumed[k] # NL
            /\ Consumed[Len(Consumed)] = NL \/ input = <<>>
       /\ prev.ins.op = "InByte" /\ prev.res = "Ok" =>
            /\ Len(Consumed) = 1
            /\ stack = Append(prev.stack, Consumed[1])
       /\ ~(prev.ins.op = "In" /\ prev.input # <<>>)
            /\ ~(prev.ins.op = "InByte" /\ prev.res = "Ok") =>
            input = prev.input

\* An InByte that got the byte right after the line an In had read.
C13_Witness ==
  /\ code = <<In, InByte>> /\ init.input = <<51, NL, 65>>
  /\ prev.ins.op = "InByte" /\ prev.input = <<65>>
  /\ stack = <<3, 65>> /\ input = <<>>

\* The line the last In read, without its end-of-line.
LineRead == StripEol(Consumed)

RECURSIVE DecValue(_)
\* The number a string of decimal digits writes.
DecValue(d) ==
  IF d = <<>> THEN 0
  ELSE 10 * DecValue(SubSeq(d, 1, Len(d) - 1)) + (d[Len(d)] - ZERO)

\* The digits of a line, after the one '+' that u64's parser allows in front.
Digits(line) ==
  IF line # <<>> /\ line[1] = PLUS THEN Tail(line) ELSE line

\* The line is a decimal integer that fits the word.
IsDecimal(line) ==
  /\ Digits(line) # <<>>
  /\ \A k \in 1..Len(Digits(line)) :
       Digits(line)[k] >= ZERO /\ Digits(line)[k] <= ZERO + 9
  /\ DecValue(Digits(line)) <= WordMax

\* C14: an In that reads a line that is no valid decimal integer fitting the
\* word makes run return an error value, pushes nothing and ends the run; a
\* line that is a valid decimal is pushed as its value and pc advances by 1.
C14_ParseError ==
  (prev.ins.op = "In" /\ prev.input # <<>>) =>
    IF IsDecimal(LineRead)
    THEN /\ prev.res = "Ok"
         /\ stack = Append(prev.stack, DecValue(Digits(LineRead)))
         /\ pc = prev.pc + 1
    ELSE /\ status = "err"
         /\ stack = prev.stack

\* C15: OutByte(p) with a valid offset writes exactly one byte equal to
\* stack[p] and leaves the stack unchanged when stack[p] <= 255; when
\* stack[p] > 255 it writes nothing and run returns an error value.
C15_OutByte ==
  (prev.ins.op = "OutByte" /\ prev.ins.a < Len(prev.stack) /\ ~WriteFailed) =>
    IF Top(prev.stack, prev.ins.a) <= 255
    THEN /\ prev.res = "Ok"
         /\ output = Append(prev.output, Top(prev.stack, prev.ins.a))
         /\ stack = prev.stack
    ELSE /\ status = "err"
         /\ output = prev.output

\* C16: when a write to the output stream fails during Out, OutStr or
\* OutByte, whatever the kind of the error, run stops at that instruction and
\* returns that error; the failure is never reported as a clean halt.
C16_WriteError ==
  WriteFailed =>
    /\ status = "err"
    /\ errkind = prev.res
    /\ pc = prev.pc /\ stack = prev.stack

\* The variants of Instruction in the order of their tags.
OpOrder ==
  <<"Push", "Out", "In", "OutStr", "Copy", "Add", "Gt", "Eq", "Jmp", "Dec",
    "Inc", "InByte", "OutByte">>

\* The record length C17 gives for an instruction.
RecordSize(i) ==
  CASE i.op \in {"In", "InByte"} -> 1
    [] i.op \in {"Push", "Out", "Copy", "Jmp", "Dec", "Inc", "OutByte"} -> 9
    [] i.op = "Add" -> 17
    [] i.op \in {"Gt", "Eq"} -> 25
    [] i.op = "OutStr" -> 9 + Len(i.s)

\* The operands an instruction's record carries after its tag.
Operands(i) ==
  CASE i.op \in {"In", "InByte"} -> <<>>
    [] i.op \in {"Push", "Out", "Copy", "Jmp", "Dec", "Inc", "OutByte"} -> <<i.a>>
    [] i.op = "Add" -> <<i.a, i.b>>
    [] i.op \in {"Gt", "Eq"} -> <<i.a, i.b, i.c>>
    [] i.op = "OutStr" -> <<Len(i.s)>>

RECURSIVE SizeSum(_)
SizeSum(p) == IF p = <<>> THEN 0 ELSE RecordSize(Head(p)) + SizeSum(Tail(p))

\* The eight bytes of f from position o are v, least significant byte first
\* (v is below 65536 here).
LeAt(f, o, v) ==
  /\ f[o] = v % 256
  /\ f[o + 1] = (v \div 256) % 256
  /\ \A j \in 2..7 : f[o + j] = 0

\* The program has just been encoded into file.
JustEncoded == init.kind = "roundtrip" /\ load = "decode" /\ instructions = <<>>

\* C17: the record of an instruction has the length its opcode fixes (1 for
\* In and InByte; 9 for Push, Out, Copy, Jmp, Dec, Inc, OutByte; 17 for Add;
\* 25 for Gt and Eq; 9 + length(s) for OutStr(s)); its first byte is the tag
\* of the opcode and each operand is 8 bytes, little-endian.
C17_RecordSizes ==
  JustEncoded =>
    /\ Len(file) = SizeSum(init.prog)
    /\ \A k \in 1..Len(init.prog) :
         LET i == init.prog[k]
             o == SizeSum(SubSeq(init.prog, 1, k - 1))
         IN /\ OpOrder[file[o + 1] + 1] = i.op
            /\ \A n \in 1..Len(Operands(i)) :
                 LeAt(file, o + 8 * n - 6, Operands(i)[n])
            /\ i.op = "OutStr" =>
                 SubSeq(file, o + 10, o + 9 + Len(i.s)) = i.s

\* A 25-byte Gt record followed by a 12-byte OutStr record.
C17_Witness ==
  /\ JustEncoded
  /\ init.prog = <<Gt(0, 1, 5), OutStr(Accented)>>
  /\ Len(file) = 37
  /\ file[1] = 6 /\ file[26] = 3

\* C18: offsets count from the top of the stack as it is when the instruction
\* executes: with a stack of length n and p < n, Copy(p) appends the value at
\* index n-1-p and changes nothing else, and Out(p) prints the value at that
\* index.
C18_OffsetFromTop ==
  (Executed /\ prev.ins.op \in {"Copy", "Out"}
     /\ prev.ins.a < Len(prev.stack) /\ ~WriteFailed) =>
    LET n == Len(prev.stack)
        v == prev.stack[(n - 1 - prev.ins.a) + 1]
    IN /\ prev.res = "Ok"
       /\ pc = prev.pc + 1
       /\ input = prev.input
       /\ prev.ins.op = "Copy" =>
            stack = Append(prev.stack, v) /\ output = prev.output
       /\ prev.ins.op = "Out" =>
            /\ stack = prev.stack
            /\ output = prev.output \o FormatU64(v) \o <<NL>>

\* The second Copy(1) of CopyProgram: the offset that named the slot holding
\* 1 now names the slot holding 2.
C18_Witness ==
  /\ code = CopyProgram
  /\ prev.ins = Copy(1)
  /\ prev.pc = 3
  /\ prev.stack = <<1, 2, 1>>
  /\ stack = <<1, 2, 1, 2>>

\* C19: Out, OutStr, OutByte, Gt, Eq and Jmp leave the stack as it was when
\* they execute successfully, branch taken or not; only pc and the output
\* may change, and the branches write nothing.
C19_StackUntouched ==
  (Executed /\ prev.res = "Ok"
     /\ prev.ins.op \in {"Out", "OutStr", "OutByte", "Gt", "Eq", "Jmp"}) =>
    /\ stack = prev.stack
    /\ input = prev.input
    /\ prev.ins.op \in {"Gt", "Eq", "Jmp"} => output = prev.output

\* A taken Gt over a stack of three values.
C19_Witness ==
  /\ prev.ins.op = "Gt"
  /\ prev.res = "Ok"
  /\ pc = prev.ins.c
  /\ pc # prev.pc + 1
  /\ Len(prev.stack) = 3
  /\ stack = prev.stack

\* C20: Dec(p) and Inc(p) with a valid offset change the stack in place: the
\* slot at index len-1-p becomes its old value minus 1 (Dec, old value above
\* 0) or plus 1 (Inc, old value below the maximum), every other slot and the
\* length stay as they were, nothing is written, and pc advances by 1.
C20_DecIncInPlace ==
  LET n == Len(prev.stack)
      k == (n - 1 - prev.ins.a) + 1
  IN (Executed /\ prev.ins.op \in {"Dec", "Inc"} /\ prev.ins.a < n
        /\ (prev.ins.op = "Dec" => prev.stack[k] > 0)
        /\ (prev.ins.op = "Inc" => prev.stack[k] < WordMax)) =>
       /\ prev.res = "Ok"
       /\ Len(stack) = n
       /\ stack[k] = IF prev.ins.op = "Dec" THEN prev.stack[k] - 1
                                            ELSE prev.stack[k] + 1
       /\ \A j \in 1..n : j # k => stack[j] = prev.stack[j]
       /\ output = prev.output
       /\ input = prev.input
       /\ pc = prev.pc + 1

\* Dec(1) on a stack of three: only the middle slot changes.
C20_Witness ==
  /\ prev.ins = Dec(1)
  /\ prev.stack = <<0, 255, 1>>
  /\ stack = <<0, 254, 1>>
  /\ pc = prev.pc + 1

\* Machine::run is a sequential loop: while it has not returned, its next
\* fetch and execute happen.
\* The inputs of the echo runs: every sequence of up to MaxEcho of these bytes.
EchoBytes == {0, NL, 65, 255}
MaxEcho == 3
EchoInputs == SeqsUpTo(EchoBytes, MaxEcho)

\* The example programs, each started from the empty stack.
InitLive ==
  /\ overflow_checks \in BOOLEAN
  /\ \/ \E c \in Examples, i \in Inputs : InitMachine(c, <<>>, i)
     \/ \E i \in EchoInputs : InitMachine(EchoProgram, <<>>, i)

SpecLive == InitLive /\ [][Next]_vars /\ WF_vars(Next)

\* A run of the echo program from the empty stack.
EchoRun == code = EchoProgram /\ init.stack = <<>>

\* C21: on every finite input the echo program [InByte, OutByte(0), Jmp(0)],
\* run from the empty stack with an output stream that takes every write,
\* eventually halts with success; at the halt the output is the input, byte
\* for byte, and the stack holds the input bytes in order.
C21_EchoHalts ==
  EchoRun ~>
    (/\ EchoRun
     /\ status # "running"
     /\ \/ WriteFailed
        \/ /\ status = "ok"
           /\ input = <<>>
           /\ output = init.input
           /\ stack = init.input)

\* The echo of three bytes, ended by InByte at the end of the input.
C21_Witness ==
  /\ EchoRun
  /\ status = "ok"
  /\ prev.ins.op = "InByte" /\ prev.res = "UnexpectedEof"
  /\ init.input = <<255, NL, 0>>
  /\ output = <<255, NL, 0>>
  /\ stack = <<255, NL, 0>>

RECURSIVE IsSubseq(_, _)
\* The elements of a occur in b, in the order of a.
IsSubseq(a, b) ==
  IF a = <<>> THEN TRUE
  ELSE IF b = <<>> THEN FALSE
  ELSE IF Head(a) = Head(b) THEN IsSubseq(Tail(a), Tail(b))
  ELSE IsSubseq(a, Tail(b))

\* The case of C22: Add(a, b) with offsets inside the stack, equal or not, and
\* a sum that fits the word.
AddValid ==
  /\ prev.ins.op = "Add"
  /\ prev.ins.a < Len(prev.stack)
  /\ prev.ins.b < Len(prev.stack)
  /\ AddSum <= WordMax

\* C22: Add(a, b) with valid offsets, a = b included, does not fail and
\* removes no element but the ones at len-1-a and len-1-b: the others are
\* still in the stack, in their original order.
C22_AddKeepsOthers ==
  AddValid =>
    /\ prev.res = "Ok"
    /\ IsSubseq(AddRest, stack)

\* The case of C23: Dec on a slot that holds 0, or Inc on a slot that holds
\* the largest value.
AtLimit ==
  /\ prev.ins.op \in {"Dec", "Inc"}
  /\ prev.ins.a < Len(prev.stack)
  /\ Top(prev.stack, prev.ins.a) = (IF prev.ins.op = "Dec" THEN 0 ELSE WordMax)

\* C23: Dec(p) on a slot holding 0 and Inc(p) on a slot holding the largest
\* value make run return an error and leave the slot as it was: the value
\* does not wrap around and the run does not end by a panic.
C23_LimitError ==
  AtLimit =>
    /\ status = "err"
    /\ stack = prev.stack

====
